---- MODULE Spec2Model ----
(***************************************************************************)
(* Model of the monitoring engine of protopixel-sys-monitor:               *)
(* MonitoringService (src/src/monitoring/service.py), its data model       *)
(* (src/src/monitoring/models.py) and the routes that drive it             *)
(* (src/src/routes.py).                                                    *)
(*                                                                         *)
(* Time is a discrete clock `now`; check_interval_seconds, timeout_seconds *)
(* and history_retention_hours are durations counted in ticks of that      *)
(* clock.  An Optional[...] value is a sequence: <<>> is None, <<v>> is v. *)
(***************************************************************************)
EXTENDS Integers, Sequences, FiniteSets, TLC

\* ------------------------------------------------------------------ bounds
MaxTime == 2
MaxRetention == 2
MaxHistory == 2

\* ------------------------------------------------------- input universes
Names == {"a", "b"}
\* A url is its text, a sequence of characters.
ValidUrl == <<"h", "t", "t", "p", ":", "/", "/", "x">>
HttpsUrl == <<"h", "t", "t", "p", "s", ":", "/", "/", "x">>
InvalidUrl == <<"f", "t", "p", ":", "/", "/", "b", "a", "d">>
StatusCodes == {399, 400}
WideStatusCodes == {200, 399, 400, 404, 500}
\* The slots for scheduler tasks (asyncio tasks running start()); a start
\* request is served when a slot is free.
Loops == {1}

VARIABLES
    now,             \* datetime.now()
    app,             \* lifecycle of the serving application
    config_file,     \* content of the file at self.config_path
    config,          \* self.config (NoConfig is None)
    status_history,  \* self.status_history: name -> list of StatusCheck
    running,         \* self.running
    pc,              \* position of each start()/monitor_urls() task
    tasks,           \* per task: the probes of the cycle in flight
    wake_at,         \* per task: the time its asyncio.sleep ends
    removed,         \* history variable: names deleted since the task's cycle began
    stop_seen        \* history variable: per task, stop() ran since its last loop test

vars == <<now, app, config_file, config, status_history, running, pc, tasks,
          wake_at, removed, stop_seen>>

\* ================================================================ models.py
None == <<>>
Some(v) == <<v>>
IsNone(x) == x = <<>>

UP == "up"
DOWN == "down"
UNKNOWN == "unknown"
URLStatus == {UP, DOWN, UNKNOWN}

StatusCheck(ts, st, rt, err) ==
    [timestamp |-> ts, status |-> st, response_time |-> rt, error |-> err]

URLConfig(n, u) == [name |-> n, url |-> u]

\* The text begins with the prefix (the pattern's anchor ^).
HasPrefix(text, prefix) ==
    /\ Len(text) >= Len(prefix)
    /\ SubSeq(text, 1, Len(prefix)) = prefix

\* Mutant of MatchesHttpPattern: only min_length=1, no pattern.
MatchesHttpPattern_no_pattern(u) == Len(u) >= 1

\* pattern="^https?://" on URLConfig.url
MatchesHttpPattern(u) ==
    \/ HasPrefix(u, <<"h", "t", "t", "p", ":", "/", "/">>)
    \/ HasPrefix(u, <<"h", "t", "t", "p", "s", ":", "/", "/">>)

URLStatusResponse(n, u, st, lc, rt, err) ==
    [name |-> n, url |-> u, current_status |-> st, last_check |-> lc,
     response_time |-> rt, error |-> err]

URLHistoryResponse(n, u, h) == [name |-> n, url |-> u, history |-> h]

NoConfig == [none |-> TRUE]

\* ============================================================ probe outcomes
\* What session.get() can do: hand back a response with a status code, or
\* raise.  Every exception class listed derives from Exception.
TimeoutError == [class |-> "TimeoutError", msg |-> ""]
ClientError == [class |-> "ClientConnectorError", msg |-> "Cannot connect to host"]
Exceptions == {TimeoutError, ClientError}

Responded(code) == [kind |-> "response", status |-> code, exc |-> TimeoutError]
Raised(e) == [kind |-> "raise", status |-> 0, exc |-> e]
Outcomes == {Responded(c) : c \in StatusCodes} \cup {Raised(e) : e \in Exceptions}
WideOutcomes ==
    {Responded(c) : c \in WideStatusCodes} \cup {Raised(e) : e \in Exceptions}

\* str(e)
Str(e) == e.msg

\* f"HTTP {response.status}"
HttpErrorText(code) ==
    CASE code = 200 -> "HTTP 200"
      [] code = 399 -> "HTTP 399"
      [] code = 400 -> "HTTP 400"
      [] code = 404 -> "HTTP 404"
      [] code = 500 -> "HTTP 500"
      [] OTHER -> "HTTP ???"


\* =============================================================== service.py
Min(x, y) == IF x <= y THEN x ELSE y

\* The file at config_path always holds a valid Config here: urls with
\* pairwise different names, and the three monitoring durations > 0.
Monitoring(interval, timeout, retention) ==
    [check_interval_seconds |-> interval, timeout_seconds |-> timeout,
     history_retention_hours |-> retention]

MonitoringChoices == {Monitoring(1, 1, r) : r \in {1, MaxRetention}}

InitialUrlLists ==
    {<<URLConfig("a", ValidUrl)>>,
     <<URLConfig("a", ValidUrl), URLConfig("b", ValidUrl)>>}

NameSet(urls) == {urls[i].name : i \in 1..Len(urls)}

\* next((url for url in self.config.urls if url.name == name), None)
FindUrl(urls, name) ==
    IF \E i \in 1..Len(urls) : urls[i].name = name
    THEN Some(urls[CHOOSE i \in 1..Len(urls) :
                     /\ urls[i].name = name
                     /\ \A j \in 1..(i - 1) : urls[j].name # name])
    ELSE None

\* Mutant of KeptAfter: keeps check.timestamp >= cutoff.
KeptAfter_ge(history, cutoff) ==
    LET keep(check) == check.timestamp >= cutoff
    IN SelectSeq(history, keep)

\* cleanup_history: the list comprehension that keeps check.timestamp > cutoff
KeptAfter(history, cutoff) ==
    LET keep(check) == check.timestamp > cutoff
    IN SelectSeq(history, keep)

\* Mutant of cleanup_history: of the entries newer than the cutoff only the
\* latest stays.
cleanup_history_latest_only(hist, url_name, monitoring, clock) ==
    IF url_name \notin DOMAIN hist
    THEN hist
    ELSE LET cutoff == clock - monitoring.history_retention_hours
             kept == KeptAfter(hist[url_name], cutoff)
         IN [hist EXCEPT ![url_name] =
                IF kept = <<>> THEN <<>> ELSE <<kept[Len(kept)]>>]

\* Mutant of cleanup_history: the eviction runs over every window.
cleanup_history_every_window(hist, url_name, monitoring, clock) ==
    IF url_name \notin DOMAIN hist
    THEN hist
    ELSE LET cutoff == clock - monitoring.history_retention_hours
         IN [n \in DOMAIN hist |-> KeptAfter(hist[n], cutoff)]

cleanup_history(hist, url_name, monitoring, clock) ==
    IF url_name \notin DOMAIN hist
    THEN hist
    ELSE LET cutoff == clock - monitoring.history_retention_hours
         IN [hist EXCEPT ![url_name] = KeptAfter(hist[url_name], cutoff)]

\* Exception classes that `except Exception` catches.
IsException(e) == e.class \in {"TimeoutError", "ClientConnectorError"}

\* Mutants of check_url.
\* Without the `except Exception` handler.
check_url_no_catch_all(start_time, outcome, elapsed) ==
    IF outcome.kind = "response"
    THEN IF outcome.status < 400
         THEN [raised |-> FALSE,
               value |-> StatusCheck(start_time, UP, Some(elapsed), None)]
         ELSE [raised |-> FALSE,
               value |-> StatusCheck(start_time, DOWN, Some(elapsed),
                                     Some(HttpErrorText(outcome.status)))]
    ELSE IF outcome.exc.class = "TimeoutError"
         THEN [raised |-> FALSE,
               value |-> StatusCheck(start_time, DOWN, None, Some("Timeout"))]
         ELSE [raised |-> TRUE,
               value |-> StatusCheck(start_time, UNKNOWN, None, None)]

\* With `response.status <= 400` as the test for UP.
check_url_le_400(start_time, outcome, elapsed) ==
    IF outcome.kind = "response"
    THEN IF outcome.status <= 400
         THEN [raised |-> FALSE,
               value |-> StatusCheck(start_time, UP, Some(elapsed), None)]
         ELSE [raised |-> FALSE,
               value |-> StatusCheck(start_time, DOWN, Some(elapsed),
                                     Some(HttpErrorText(outcome.status)))]
    ELSE IF outcome.exc.class = "TimeoutError"
         THEN [raised |-> FALSE,
               value |-> StatusCheck(start_time, DOWN, None, Some("Timeout"))]
         ELSE [raised |-> FALSE,
               value |-> StatusCheck(start_time, DOWN, None,
                                     Some(Str(outcome.exc)))]

\* With the error text left out of the result for an HTTP error status.
check_url_no_error_text(start_time, outcome, elapsed) ==
    IF outcome.kind = "response"
    THEN IF outcome.status < 400
         THEN [raised |-> FALSE,
               value |-> StatusCheck(start_time, UP, Some(elapsed), None)]
         ELSE [raised |-> FALSE,
               value |-> StatusCheck(start_time, DOWN, Some(elapsed), None)]
    ELSE IF outcome.exc.class = "TimeoutError"
         THEN [raised |-> FALSE,
               value |-> StatusCheck(start_time, DOWN, None, Some("Timeout"))]
         ELSE [raised |-> FALSE,
               value |-> StatusCheck(start_time, DOWN, None,
                                     Some(Str(outcome.exc)))]

\* With a transport failure reported as UNKNOWN.
check_url_unknown_on_error(start_time, outcome, elapsed) ==
    IF outcome.kind = "response"
    THEN IF outcome.status < 400
         THEN [raised |-> FALSE,
               value |-> StatusCheck(start_time, UP, Some(elapsed), None)]
         ELSE [raised |-> FALSE,
               value |-> StatusCheck(start_time, DOWN, Some(elapsed),
                                     Some(HttpErrorText(outcome.status)))]
    ELSE IF outcome.exc.class = "TimeoutError"
         THEN [raised |-> FALSE,
               value |-> StatusCheck(start_time, DOWN, None, Some("Timeout"))]
         ELSE [raised |-> FALSE,
               value |-> StatusCheck(start_time, UNKNOWN, None,
                                     Some(Str(outcome.exc)))]

\* check_url: what the coroutine returns (or raises) for one outcome of
\* session.get(), `elapsed` after start_time.
check_url(start_time, outcome, elapsed) ==
    IF outcome.kind = "response"
    THEN IF outcome.status < 400
         THEN [raised |-> FALSE,
               value |-> StatusCheck(start_time, UP, Some(elapsed), None)]
         ELSE [raised |-> FALSE,
               value |-> StatusCheck(start_time, DOWN, Some(elapsed),
                                     Some(HttpErrorText(outcome.status)))]
    ELSE IF outcome.exc.class = "TimeoutError"
         THEN [raised |-> FALSE,
               value |-> StatusCheck(start_time, DOWN, None, Some("Timeout"))]
         ELSE IF IsException(outcome.exc)
              THEN [raised |-> FALSE,
                    value |-> StatusCheck(start_time, DOWN, None,
                                          Some(Str(outcome.exc)))]
              ELSE [raised |-> TRUE,
                    value |-> StatusCheck(start_time, UNKNOWN, None, None)]

\* One probe of a cycle: the check_url coroutine a task awaits in gather.
\* outcome, elapsed and ret are meaningful once done is TRUE.
Probe(url_config, start_time) ==
    [url_config |-> url_config, start_time |-> start_time, done |-> FALSE,
     outcome |-> Responded(200), elapsed |-> 0,
     ret |-> check_url(start_time, Responded(200), 0)]

\* tasks = [self.check_url(u) for u in self.config.urls]
LaunchProbes(urls, clock) == [i \in 1..Len(urls) |-> Probe(urls[i], clock)]

AllDone(probes) == \A i \in 1..Len(probes) : probes[i].done
AnyRaised(probes) == \E i \in 1..Len(probes) : probes[i].ret.raised

\* Mutant of FanIn: a result with status DOWN is not recorded.
RECURSIVE FanIn_skips_down(_, _, _, _, _, _)
FanIn_skips_down(hist, urls, probes, monitoring, clock, k) ==
    IF k > Min(Len(urls), Len(probes))
    THEN [hist |-> hist, ok |-> TRUE]
    ELSE LET name == urls[k].name
         IN IF name \notin DOMAIN hist
            THEN [hist |-> hist, ok |-> FALSE]
            ELSE LET appended == [hist EXCEPT ![name] =
                                      IF probes[k].ret.value.status = DOWN
                                      THEN hist[name]
                                      ELSE Append(hist[name],
                                                  probes[k].ret.value)]
                 IN FanIn_skips_down(
                        cleanup_history(appended, name, monitoring, clock),
                        urls, probes, monitoring, clock, k + 1)

\* Mutant of FanIn: each result is written over the window (the append works
\* on a copy of the window taken empty).
RECURSIVE FanIn_overwrites(_, _, _, _, _, _)
FanIn_overwrites(hist, urls, probes, monitoring, clock, k) ==
    IF k > Min(Len(urls), Len(probes))
    THEN [hist |-> hist, ok |-> TRUE]
    ELSE LET name == urls[k].name
         IN IF name \notin DOMAIN hist
            THEN [hist |-> hist, ok |-> FALSE]
            ELSE LET appended == [hist EXCEPT ![name] =
                                      <<probes[k].ret.value>>]
                 IN FanIn_overwrites(
                        cleanup_history(appended, name, monitoring, clock),
                        urls, probes, monitoring, clock, k + 1)

\* for url_config, result in zip(self.config.urls, results): append, cleanup.
\* A name without a window raises KeyError and ends the loop there.
RECURSIVE FanIn(_, _, _, _, _, _)
FanIn(hist, urls, probes, monitoring, clock, k) ==
    IF k > Min(Len(urls), Len(probes))
    THEN [hist |-> hist, ok |-> TRUE]
    ELSE LET name == urls[k].name
         IN IF name \notin DOMAIN hist
            THEN [hist |-> hist, ok |-> FALSE]
            ELSE LET appended == [hist EXCEPT ![name] =
                                      Append(hist[name], probes[k].ret.value)]
                 IN FanIn(cleanup_history(appended, name, monitoring, clock),
                          urls, probes, monitoring, clock, k + 1)

\* Mutant of InitHistory: load_config creates no window.
InitHistory_no_windows(hist, urls) == hist

\* Mutant of InitHistory: load_config starts every window afresh.
InitHistory_resets(hist, urls) == [n \in NameSet(urls) |-> <<>>]

\* load_config: for each url without a window, status_history[name] = []
InitHistory(hist, urls) ==
    [n \in (DOMAIN hist) \cup NameSet(urls) |->
        IF n \in DOMAIN hist THEN hist[n] ELSE <<>>]

\* The content of the file at config_path is either a JSON object (a
\* function from its keys) or text that is not a JSON document.
NotJson(text) == [text |-> text]

\* json.load(f)
json_load(file) ==
    IF "text" \in DOMAIN file
    THEN [raised |-> "JSONDecodeError", data |-> None]
    ELSE [raised |-> "", data |-> file]

\* URLConfig: name and url required, name min_length=1, url min_length=1 and
\* pattern
URLConfigIsValid(entry) ==
    /\ {"name", "url"} \subseteq DOMAIN entry
    /\ entry.name # ""
    /\ Len(entry.url) >= 1
    /\ MatchesHttpPattern(entry.url)

\* Mutant of MonitoringConfigIsValid: ge=0 in place of gt=0.
MonitoringConfigIsValid_ge(m) ==
    /\ {"check_interval_seconds", "timeout_seconds",
        "history_retention_hours"} \subseteq DOMAIN m
    /\ m.check_interval_seconds >= 0
    /\ m.timeout_seconds >= 0
    /\ m.history_retention_hours >= 0

\* MonitoringConfig: three required ints, each gt=0
MonitoringConfigIsValid(m) ==
    /\ {"check_interval_seconds", "timeout_seconds",
        "history_retention_hours"} \subseteq DOMAIN m
    /\ m.check_interval_seconds > 0
    /\ m.timeout_seconds > 0
    /\ m.history_retention_hours > 0

\* Config(**config_data): urls and monitoring required, each validated
ConfigIsValid(data) ==
    /\ {"urls", "monitoring"} \subseteq DOMAIN data
    /\ \A i \in 1..Len(data.urls) : URLConfigIsValid(data.urls[i])
    /\ MonitoringConfigIsValid(data.monitoring)

\* load_config: parse, validate, assign self.config, then give a window to
\* each url that has none.  An exception leaves the service as it was.
load_config(file, cfg, hist) ==
    LET parsed == json_load(file)
    IN IF parsed.raised # ""
       THEN [raised |-> parsed.raised, cfg |-> cfg, hist |-> hist]
       ELSE IF ~ConfigIsValid(parsed.data)
       THEN [raised |-> "ValidationError", cfg |-> cfg, hist |-> hist]
       ELSE [raised |-> "", cfg |-> parsed.data,
             hist |-> InitHistory(hist, parsed.data.urls)]

\* Mutant of get_url_status: no answer for an endpoint with an empty history.
get_url_status_none_when_empty(cfg, hist, name, clock) ==
    IF cfg = NoConfig
    THEN [raised |-> "AttributeError", result |-> None]
    ELSE LET url_config == FindUrl(cfg.urls, name)
         IN IF IsNone(url_config) \/ name \notin DOMAIN hist
            THEN [raised |-> "", result |-> None]
            ELSE IF hist[name] = <<>>
                 THEN [raised |-> "", result |-> None]
                 ELSE LET latest == hist[name][Len(hist[name])]
                      IN [raised |-> "",
                          result |-> Some(URLStatusResponse(name,
                                              url_config[1].url, latest.status,
                                              latest.timestamp,
                                              latest.response_time,
                                              latest.error))]

\* Mutant of get_url_status: latest = history[0].
get_url_status_oldest(cfg, hist, name, clock) ==
    IF cfg = NoConfig
    THEN [raised |-> "AttributeError", result |-> None]
    ELSE LET url_config == FindUrl(cfg.urls, name)
         IN IF IsNone(url_config) \/ name \notin DOMAIN hist
            THEN [raised |-> "", result |-> None]
            ELSE IF hist[name] = <<>>
                 THEN [raised |-> "",
                       result |-> Some(URLStatusResponse(name, url_config[1].url,
                                           UNKNOWN, clock, None, None))]
                 ELSE LET latest == hist[name][1]
                      IN [raised |-> "",
                          result |-> Some(URLStatusResponse(name,
                                              url_config[1].url, latest.status,
                                              latest.timestamp,
                                              latest.response_time,
                                              latest.error))]

\* Mutant of get_url_status: a name that is not found is answered as UNKNOWN.
get_url_status_unknown_for_missing(cfg, hist, name, clock) ==
    IF cfg = NoConfig
    THEN [raised |-> "AttributeError", result |-> None]
    ELSE LET url_config == FindUrl(cfg.urls, name)
         IN IF IsNone(url_config) \/ name \notin DOMAIN hist
            THEN [raised |-> "",
                  result |-> Some(URLStatusResponse(name, <<>>, UNKNOWN, clock,
                                                    None, None))]
            ELSE IF hist[name] = <<>>
                 THEN [raised |-> "",
                       result |-> Some(URLStatusResponse(name, url_config[1].url,
                                           UNKNOWN, clock, None, None))]
                 ELSE LET latest == hist[name][Len(hist[name])]
                      IN [raised |-> "",
                          result |-> Some(URLStatusResponse(name,
                                              url_config[1].url, latest.status,
                                              latest.timestamp,
                                              latest.response_time,
                                              latest.error))]

\* Mutant of get_url_status: an empty history is reported as DOWN.
get_url_status_down_when_empty(cfg, hist, name, clock) ==
    IF cfg = NoConfig
    THEN [raised |-> "AttributeError", result |-> None]
    ELSE LET url_config == FindUrl(cfg.urls, name)
         IN IF IsNone(url_config) \/ name \notin DOMAIN hist
            THEN [raised |-> "", result |-> None]
            ELSE IF hist[name] = <<>>
                 THEN [raised |-> "",
                       result |-> Some(URLStatusResponse(name, url_config[1].url,
                                           DOWN, clock, None, None))]
                 ELSE LET latest == hist[name][Len(hist[name])]
                      IN [raised |-> "",
                          result |-> Some(URLStatusResponse(name,
                                              url_config[1].url, latest.status,
                                              latest.timestamp,
                                              latest.response_time,
                                              latest.error))]

\* get_url_status
get_url_status(cfg, hist, name, clock) ==
    IF cfg = NoConfig
    THEN [raised |-> "AttributeError", result |-> None]
    ELSE LET url_config == FindUrl(cfg.urls, name)
         IN IF IsNone(url_config) \/ name \notin DOMAIN hist
            THEN [raised |-> "", result |-> None]
            ELSE IF hist[name] = <<>>
                 THEN [raised |-> "",
                       result |-> Some(URLStatusResponse(name, url_config[1].url,
                                           UNKNOWN, clock, None, None))]
                 ELSE LET latest == hist[name][Len(hist[name])]
                      IN [raised |-> "",
                          result |-> Some(URLStatusResponse(name,
                                              url_config[1].url, latest.status,
                                              latest.timestamp,
                                              latest.response_time,
                                              latest.error))]

\* Mutant of get_url_history: without the cleanup before the answer.
get_url_history_no_cleanup(cfg, hist, name, clock) ==
    IF cfg = NoConfig
    THEN [raised |-> "AttributeError", result |-> None, hist |-> hist]
    ELSE LET url_config == FindUrl(cfg.urls, name)
         IN IF IsNone(url_config) \/ name \notin DOMAIN hist
            THEN [raised |-> "", result |-> None, hist |-> hist]
            ELSE [raised |-> "",
                  result |-> Some(URLHistoryResponse(name, url_config[1].url,
                                                     hist[name])),
                  hist |-> hist]

\* get_url_history: the answer and the store it leaves behind
get_url_history(cfg, hist, name, clock) ==
    IF cfg = NoConfig
    THEN [raised |-> "AttributeError", result |-> None, hist |-> hist]
    ELSE LET url_config == FindUrl(cfg.urls, name)
         IN IF IsNone(url_config) \/ name \notin DOMAIN hist
            THEN [raised |-> "", result |-> None, hist |-> hist]
            ELSE LET cleaned == cleanup_history(hist, name, cfg.monitoring, clock)
                 IN [raised |-> "",
                     result |-> Some(URLHistoryResponse(name, url_config[1].url,
                                                        cleaned[name])),
                     hist |-> cleaned]


\* Mutant of stop: calling it on a stopped service is an error.
stop_raises_when_stopped(flag) ==
    IF flag
    THEN [raised |-> "", running |-> FALSE]
    ELSE [raised |-> "RuntimeError", running |-> flag]

\* MonitoringService.stop: self.running = False, whatever it was
stop(flag) == [raised |-> "", running |-> FALSE]

\* The text of a number in a CSV cell (isoformat of a timestamp, str of a
\* response time).
DecimalText(k) ==
    IF k \in 0..9
    THEN <<"0", "1", "2", "3", "4", "5", "6", "7", "8", "9">>[k + 1]
    ELSE "?"

CsvHeader ==
    <<"URL Name", "URL", "Timestamp", "Status", "Response Time", "Error">>

\* One writer.writerow of a check: None becomes the empty text.
CsvRow(url_config, check) ==
    <<url_config.name, url_config.url, DecimalText(check.timestamp),
      check.status,
      IF IsNone(check.response_time)
      THEN "" ELSE DecimalText(check.response_time[1]),
      IF IsNone(check.error) THEN "" ELSE check.error[1]>>

CsvRows(url_config, history) ==
    [j \in 1..Len(history) |-> CsvRow(url_config, history[j])]

\* The rows of urls_to_save from position k on, in the order of the list.
RECURSIVE CsvRowsOfAll(_, _, _)
CsvRowsOfAll(urls, hist, k) ==
    IF k > Len(urls)
    THEN <<>>
    ELSE LET window == IF urls[k].name \in DOMAIN hist
                       THEN hist[urls[k].name] ELSE <<>>
         IN CsvRows(urls[k], window) \o CsvRowsOfAll(urls, hist, k + 1)

\* `if name:` and f"{name}-history.csv" if name else "all-history.csv"
Truthy(name) == ~IsNone(name) /\ name[1] # ""
DefaultFilename(name) ==
    IF Truthy(name) THEN <<name[1], "-history.csv">> ELSE <<"all-history.csv">>

\* Mutant of save_monitoring_results: an empty scope yields a file that holds
\* the header alone.
save_monitoring_results_header_only(cfg, hist, name) ==
    IF cfg = NoConfig
    THEN [raised |-> "AttributeError", result |-> None, file |-> None]
    ELSE IF Truthy(name)
    THEN LET url_config == FindUrl(cfg.urls, name[1])
         IN IF IsNone(url_config) \/ name[1] \notin DOMAIN hist
            THEN [raised |-> "", result |-> None, file |-> None]
            ELSE [raised |-> "", result |-> Some(DefaultFilename(name)),
                  file |-> Some(<<CsvHeader>> \o
                                CsvRows(url_config[1], hist[name[1]]))]
    ELSE [raised |-> "", result |-> Some(DefaultFilename(name)),
          file |-> Some(<<CsvHeader>> \o CsvRowsOfAll(cfg.urls, hist, 1))]

\* save_monitoring_results(name): None when the scope holds no entry, else
\* the file name, the file holding the header and one row per entry.
save_monitoring_results(cfg, hist, name) ==
    IF cfg = NoConfig
    THEN [raised |-> "AttributeError", result |-> None, file |-> None]
    ELSE IF Truthy(name)
    THEN LET url_config == FindUrl(cfg.urls, name[1])
         IN IF IsNone(url_config) \/ name[1] \notin DOMAIN hist
            THEN [raised |-> "", result |-> None, file |-> None]
            ELSE IF hist[name[1]] = <<>>
            THEN [raised |-> "", result |-> None, file |-> None]
            ELSE [raised |-> "", result |-> Some(DefaultFilename(name)),
                  file |-> Some(<<CsvHeader>> \o
                                CsvRows(url_config[1], hist[name[1]]))]
    ELSE IF CsvRowsOfAll(cfg.urls, hist, 1) = <<>>
    THEN [raised |-> "", result |-> None, file |-> None]
    ELSE [raised |-> "", result |-> Some(DefaultFilename(name)),
          file |-> Some(<<CsvHeader>> \o CsvRowsOfAll(cfg.urls, hist, 1))]

\* What a route hands back: a raised HTTPException or a JSON body.
HTTPException(status_code, detail) ==
    [raised |-> TRUE, status_code |-> status_code, detail |-> detail,
     body |-> <<>>]
Returned(body) ==
    [raised |-> FALSE, status_code |-> 200, detail |-> "", body |-> body]

\* Mutant of start_monitoring_returns: no test of the flag.
start_monitoring_returns_unguarded(flag) ==
    Returned([status |-> "started"])

\* POST /monitoring/start: the answer for a given value of monitor.running
start_monitoring_returns(flag) ==
    IF flag
    THEN HTTPException(400, "Monitoring is already running")
    ELSE Returned([status |-> "started"])

\* POST /monitoring/stop: the answer for a given value of monitor.running
stop_monitoring_returns(flag) ==
    IF ~flag
    THEN HTTPException(400, "Monitoring is not running")
    ELSE Returned([status |-> "stopped"])

\* GET /monitoring/status
monitoring_status(flag) == Returned([running |-> flag])

\* ===================================================================== Init
\* MonitoringService.__init__, before the application's startup event.
Init ==
    /\ now = 0
    /\ app = "init"
    /\ config_file \in {[urls |-> us, monitoring |-> m] :
                           us \in InitialUrlLists, m \in MonitoringChoices}
    /\ config = NoConfig
    /\ status_history = <<>>
    /\ running = FALSE
    /\ pc = [l \in Loops |-> "none"]
    /\ tasks = [l \in Loops |-> <<>>]
    /\ wake_at = [l \in Loops |-> 0]
    /\ removed = [l \in Loops |-> {}]
    /\ stop_seen = [l \in Loops |-> FALSE]

FreeSlot(l) == pc[l] \in {"none", "done", "crashed"}

\* A cycle begins only while every window has room for one more entry: this
\* bounds the windows, which restarts could otherwise grow within one tick.
HasRoom(hist) == \A n \in DOMAIN hist : Len(hist[n]) < MaxHistory

\* The tasks inside monitor_urls when stop() clears a flag that was set have
\* been stopped since their last loop test.
StopSeenAfterStop ==
    [l \in DOMAIN pc |->
        stop_seen[l] \/ (running /\ pc[l] \in {"gather", "sleep"})]

\* ============================================================ the clock
\* Time passes.  aiohttp ends a request at its timeout, so the clock does not
\* run past the deadline of a probe that has not returned.
Tick ==
    /\ now < MaxTime
    /\ \A l \in DOMAIN pc : \A i \in 1..Len(tasks[l]) :
          tasks[l][i].done \/
          now - tasks[l][i].start_time < config.monitoring.timeout_seconds
    /\ now' = now + 1
    /\ UNCHANGED <<app, config_file, config, status_history, running, pc,
                   tasks, wake_at, removed, stop_seen>>

\* ======================================================= lifecycle, routes
\* startup_event: asyncio.create_task(monitor.start())
startup_event ==
    /\ app = "init"
    /\ app' = "serving"
    /\ pc' = [pc EXCEPT ![1] = "created"]
    /\ UNCHANGED <<now, config_file, config, status_history, running, tasks,
                   wake_at, removed, stop_seen>>

\* shutdown_event: await monitor.stop()
shutdown_event ==
    /\ app = "serving"
    /\ app' = "shutdown"
    /\ running' = stop(running).running
    /\ UNCHANGED <<now, config_file, config, status_history, pc, tasks,
                   wake_at, removed>>
    /\ stop_seen' = StopSeenAfterStop

\* POST /monitoring/start
start_monitoring ==
    /\ app = "serving"
    /\ IF start_monitoring_returns(running).raised
       THEN pc' = pc
       ELSE \E l \in DOMAIN pc :
               /\ FreeSlot(l)
               /\ \A k \in 1..(l - 1) : ~FreeSlot(k)
               /\ pc' = [pc EXCEPT ![l] = "created"]
    /\ UNCHANGED <<now, app, config_file, config, status_history, running,
                   tasks, wake_at, removed, stop_seen>>

\* Mutant of stop_monitoring: the cycle in flight is cancelled.
stop_monitoring_cancels ==
    /\ app = "serving"
    /\ IF ~running
       THEN running' = running /\ UNCHANGED <<pc, tasks>>
       ELSE /\ running' = FALSE
            /\ pc' = [l \in DOMAIN pc |->
                         IF pc[l] = "gather" THEN "done" ELSE pc[l]]
            /\ tasks' = [l \in DOMAIN pc |->
                            IF pc[l] = "gather" THEN <<>> ELSE tasks[l]]
    /\ UNCHANGED <<now, app, config_file, config, status_history, wake_at,
                   removed>>
    /\ stop_seen' = StopSeenAfterStop

\* POST /monitoring/stop, MonitoringService.stop
stop_monitoring ==
    /\ app = "serving"
    /\ IF stop_monitoring_returns(running).raised
       THEN running' = running
       ELSE running' = stop(running).running
    /\ UNCHANGED <<now, app, config_file, config, status_history, pc, tasks,
                   wake_at, removed>>
    /\ stop_seen' = StopSeenAfterStop

\* ======================================================== the scheduler task
\* start(): load_config, running = True, then monitor_urls up to its first
\* await: the loop test, the probes of the first cycle, gather.  An exception
\* of load_config ends the task before running is set.
start(l) ==
    /\ pc[l] = "created"
    /\ HasRoom(status_history)
    /\ LET loaded == load_config(config_file, config, status_history)
       IN IF loaded.raised # ""
          THEN /\ pc' = [pc EXCEPT ![l] = "crashed"]
               /\ UNCHANGED <<config, status_history, running, tasks, removed,
                              stop_seen>>
          ELSE /\ config' = loaded.cfg
               /\ status_history' = loaded.hist
               /\ running' = TRUE
               /\ tasks' = [tasks EXCEPT ![l] =
                               LaunchProbes(loaded.cfg.urls, now)]
               /\ removed' = [removed EXCEPT ![l] = {}]
               /\ stop_seen' = [stop_seen EXCEPT ![l] = FALSE]
               /\ pc' = [pc EXCEPT ![l] = "gather"]
    /\ UNCHANGED <<now, app, config_file, wake_at>>

\* Mutant of ProbeReturns: the request has no timeout, a probe that got no
\* answer never returns.
ProbeReturns_never_times_out(l, i, outcome) ==
    /\ pc[l] = "gather"
    /\ i \in 1..Len(tasks[l])
    /\ ~tasks[l][i].done
    /\ outcome # Raised(TimeoutError)
    /\ LET p == tasks[l][i]
           elapsed == now - p.start_time
       IN /\ elapsed <= config.monitoring.timeout_seconds
          /\ outcome.kind = "response" =>
                elapsed < config.monitoring.timeout_seconds
          /\ elapsed < config.monitoring.timeout_seconds
          /\ tasks' = [tasks EXCEPT ![l][i] =
                          [p EXCEPT !.done = TRUE, !.outcome = outcome,
                                    !.elapsed = elapsed,
                                    !.ret = check_url(p.start_time, outcome,
                                                      elapsed)]]
    /\ UNCHANGED <<now, app, config_file, config, status_history, running, pc,
                   wake_at, removed, stop_seen>>

\* One check_url coroutine returns: session.get() answered or raised.
\* A response arrives within the timeout; the timeout fires at the timeout.
ProbeReturns(l, i, outcome) ==
    /\ pc[l] = "gather"
    /\ i \in 1..Len(tasks[l])
    /\ ~tasks[l][i].done
    /\ LET p == tasks[l][i]
           elapsed == now - p.start_time
       IN /\ elapsed <= config.monitoring.timeout_seconds
          /\ outcome.kind = "response" =>
                elapsed < config.monitoring.timeout_seconds
          /\ outcome = Raised(TimeoutError) =>
                elapsed = config.monitoring.timeout_seconds
          /\ tasks' = [tasks EXCEPT ![l][i] =
                          [p EXCEPT !.done = TRUE, !.outcome = outcome,
                                    !.elapsed = elapsed,
                                    !.ret = check_url(p.start_time, outcome,
                                                      elapsed)]]
    /\ UNCHANGED <<now, app, config_file, config, status_history, running, pc,
                   wake_at, removed, stop_seen>>

\* Mutant of monitor_urls_fan_in: the wait ends with the first probe that returns.
monitor_urls_fan_in_first_done(l) ==
    /\ pc[l] = "gather"
    /\ \E i \in 1..Len(tasks[l]) : tasks[l][i].done
    /\ IF AnyRaised(tasks[l])
       THEN /\ pc' = [pc EXCEPT ![l] = "crashed"]
            /\ UNCHANGED <<status_history, wake_at>>
       ELSE LET r == FanIn(status_history, config.urls, tasks[l],
                           config.monitoring, now, 1)
            IN /\ status_history' = r.hist
               /\ IF r.ok
                  THEN /\ pc' = [pc EXCEPT ![l] = "sleep"]
                       /\ wake_at' = [wake_at EXCEPT ![l] =
                             now + config.monitoring.check_interval_seconds]
                  ELSE /\ pc' = [pc EXCEPT ![l] = "crashed"]
                       /\ UNCHANGED wake_at
    /\ UNCHANGED <<now, app, config_file, config, running, tasks, removed, stop_seen>>

\* monitor_urls, from the return of gather to the sleep: an exception out of a
\* probe or out of the append loop ends the task.
monitor_urls_fan_in(l) ==
    /\ pc[l] = "gather"
    /\ AllDone(tasks[l])
    /\ IF AnyRaised(tasks[l])
       THEN /\ pc' = [pc EXCEPT ![l] = "crashed"]
            /\ UNCHANGED <<status_history, wake_at>>
       ELSE LET r == FanIn(status_history, config.urls, tasks[l],
                           config.monitoring, now, 1)
            IN /\ status_history' = r.hist
               /\ IF r.ok
                  THEN /\ pc' = [pc EXCEPT ![l] = "sleep"]
                       /\ wake_at' = [wake_at EXCEPT ![l] =
                             now + config.monitoring.check_interval_seconds]
                  ELSE /\ pc' = [pc EXCEPT ![l] = "crashed"]
                       /\ UNCHANGED wake_at
    /\ UNCHANGED <<now, app, config_file, config, running, tasks, removed, stop_seen>>

\* Mutant of monitor_urls_wake: `while True`, the flag is not read.
monitor_urls_wake_ignores_flag(l) ==
    /\ pc[l] = "sleep"
    /\ now >= wake_at[l]
    /\ HasRoom(status_history)
    /\ tasks' = [tasks EXCEPT ![l] = LaunchProbes(config.urls, now)]
    /\ pc' = [pc EXCEPT ![l] = "gather"]
    /\ wake_at' = [wake_at EXCEPT ![l] = 0]
    /\ removed' = [removed EXCEPT ![l] = {}]
    /\ stop_seen' = [stop_seen EXCEPT ![l] = FALSE]
    /\ UNCHANGED <<now, app, config_file, config, status_history, running>>

\* monitor_urls, from the end of the sleep: `while self.running` either begins
\* the next cycle or leaves the loop.
monitor_urls_wake(l) ==
    /\ pc[l] = "sleep"
    /\ now >= wake_at[l]
    /\ running => HasRoom(status_history)
    /\ IF running
       THEN /\ tasks' = [tasks EXCEPT ![l] = LaunchProbes(config.urls, now)]
            /\ pc' = [pc EXCEPT ![l] = "gather"]
       ELSE /\ pc' = [pc EXCEPT ![l] = "done"]
            /\ tasks' = [tasks EXCEPT ![l] = <<>>]
    /\ wake_at' = [wake_at EXCEPT ![l] = 0]
    /\ removed' = [removed EXCEPT ![l] = {}]
    /\ stop_seen' = [stop_seen EXCEPT ![l] = FALSE]
    /\ UNCHANGED <<now, app, config_file, config, status_history, running>>

\* ================================================================== queries
\* GET /status/{name}
get_status(name) ==
    /\ app = "serving"
    /\ UNCHANGED vars

\* GET /history/{name}
get_history(name) ==
    /\ app = "serving"
    /\ LET r == get_url_history(config, status_history, name, now)
       IN status_history' = r.hist
    /\ UNCHANGED <<now, app, config_file, config, running, pc, tasks, wake_at,
                   removed, stop_seen>>

\* Mutant of add_url_monitor: a name already registered is added again.
add_url_monitor_allows_duplicate(cfg, hist, name, url) ==
    IF cfg = NoConfig
    THEN [raised |-> "AttributeError", msg |-> "", result |-> None,
          cfg |-> cfg, hist |-> hist]
    ELSE IF ~MatchesHttpPattern(url)
    THEN [raised |-> "ValidationError", msg |-> "", result |-> None,
          cfg |-> cfg, hist |-> hist]
    ELSE [raised |-> "", msg |-> "", result |-> Some(URLConfig(name, url)),
          cfg |-> [cfg EXCEPT !.urls = Append(@, URLConfig(name, url))],
          hist |-> [n \in (DOMAIN hist) \cup {name} |->
                       IF n = name THEN <<>> ELSE hist[n]]]

\* Mutant of add_url_monitor: the endpoint is registered without a window.
add_url_monitor_no_window(cfg, hist, name, url) ==
    IF cfg = NoConfig
    THEN [raised |-> "AttributeError", msg |-> "", result |-> None,
          cfg |-> cfg, hist |-> hist]
    ELSE IF name \in NameSet(cfg.urls)
    THEN [raised |-> "ValueError", msg |-> "already exists", result |-> None,
          cfg |-> cfg, hist |-> hist]
    ELSE IF ~MatchesHttpPattern(url)
    THEN [raised |-> "ValidationError", msg |-> "", result |-> None,
          cfg |-> cfg, hist |-> hist]
    ELSE [raised |-> "", msg |-> "", result |-> Some(URLConfig(name, url)),
          cfg |-> [cfg EXCEPT !.urls = Append(@, URLConfig(name, url))],
          hist |-> hist]

\* ================================================= runtime endpoint mutation
\* add_url_monitor (called by POST /monitor)
add_url_monitor(cfg, hist, name, url) ==
    IF cfg = NoConfig
    THEN [raised |-> "AttributeError", msg |-> "", result |-> None,
          cfg |-> cfg, hist |-> hist]
    ELSE IF name \in NameSet(cfg.urls)
    THEN [raised |-> "ValueError", msg |-> "already exists", result |-> None,
          cfg |-> cfg, hist |-> hist]
    ELSE IF ~MatchesHttpPattern(url)
    THEN [raised |-> "ValidationError", msg |-> "", result |-> None,
          cfg |-> cfg, hist |-> hist]
    ELSE [raised |-> "", msg |-> "", result |-> Some(URLConfig(name, url)),
          cfg |-> [cfg EXCEPT !.urls = Append(@, URLConfig(name, url))],
          hist |-> [n \in (DOMAIN hist) \cup {name} |->
                       IF n = name THEN <<>> ELSE hist[n]]]

\* Mutant of delete_url_monitor: a name that is not found is an error.
delete_url_monitor_raises_when_missing(cfg, hist, name) ==
    IF cfg = NoConfig
    THEN [raised |-> "AttributeError", result |-> None, cfg |-> cfg, hist |-> hist]
    ELSE IF IsNone(FindUrl(cfg.urls, name))
    THEN [raised |-> "KeyError", result |-> None, cfg |-> cfg, hist |-> hist]
    ELSE LET other(u) == u.name # name
         IN [raised |-> "", result |-> FindUrl(cfg.urls, name),
             cfg |-> [cfg EXCEPT !.urls = SelectSeq(@, other)],
             hist |-> [n \in (DOMAIN hist) \ {name} |-> hist[n]]]

\* Mutant of delete_url_monitor: the window of the removed endpoint stays.
delete_url_monitor_keeps_window(cfg, hist, name) ==
    IF cfg = NoConfig
    THEN [raised |-> "AttributeError", result |-> None, cfg |-> cfg, hist |-> hist]
    ELSE IF IsNone(FindUrl(cfg.urls, name))
    THEN [raised |-> "", result |-> None, cfg |-> cfg, hist |-> hist]
    ELSE LET other(u) == u.name # name
         IN [raised |-> "", result |-> FindUrl(cfg.urls, name),
             cfg |-> [cfg EXCEPT !.urls = SelectSeq(@, other)],
             hist |-> hist]

\* delete_url_monitor (called by DELETE /monitor/{name})
delete_url_monitor(cfg, hist, name) ==
    IF cfg = NoConfig
    THEN [raised |-> "AttributeError", result |-> None, cfg |-> cfg, hist |-> hist]
    ELSE IF IsNone(FindUrl(cfg.urls, name))
    THEN [raised |-> "", result |-> None, cfg |-> cfg, hist |-> hist]
    ELSE LET other(u) == u.name # name
         IN [raised |-> "", result |-> FindUrl(cfg.urls, name),
             cfg |-> [cfg EXCEPT !.urls = SelectSeq(@, other)],
             hist |-> [n \in (DOMAIN hist) \ {name} |-> hist[n]]]

\* GET /download/csv: the optional query parameter name
ExportScopes == {None, Some("")} \cup {Some(n) : n \in Names}

download_history_csv(name) ==
    /\ app = "serving"
    /\ UNCHANGED vars

\* Mutant of create_monitor: the added endpoint is not written to the file.
create_monitor_no_persist(name, url) ==
    /\ app = "serving"
    /\ LET r == add_url_monitor(config, status_history, name, url)
       IN /\ config' = r.cfg
          /\ status_history' = r.hist
          /\ config_file' = config_file
    /\ UNCHANGED <<now, app, running, pc, tasks, wake_at, removed, stop_seen>>

\* POST /monitor
create_monitor(name, url) ==
    /\ app = "serving"
    /\ LET r == add_url_monitor(config, status_history, name, url)
       IN /\ config' = r.cfg
          /\ status_history' = r.hist
          /\ config_file' = IF r.raised = "" THEN r.cfg ELSE config_file
    /\ UNCHANGED <<now, app, running, pc, tasks, wake_at, removed, stop_seen>>

\* DELETE /monitor/{name}
delete_monitor(name) ==
    /\ app = "serving"
    /\ LET r == delete_url_monitor(config, status_history, name)
       IN /\ config' = r.cfg
          /\ status_history' = r.hist
          /\ config_file' = IF ~IsNone(r.result) THEN r.cfg ELSE config_file
          /\ removed' = [l \in DOMAIN pc |->
                IF pc[l] = "gather" /\ ~IsNone(r.result)
                THEN removed[l] \cup {name} ELSE removed[l]]
    /\ UNCHANGED <<now, app, running, pc, tasks, wake_at, stop_seen>>

\* ============================================================ specification
Next ==
    \/ Tick
    \/ startup_event
    \/ shutdown_event
    \/ start_monitoring
    \/ stop_monitoring
    \/ \E l \in Loops : start(l)
    \/ \E l \in Loops, i \in 1..Cardinality(Names), o \in Outcomes :
          ProbeReturns(l, i, o)
    \/ \E l \in Loops : monitor_urls_fan_in(l)
    \/ \E l \in Loops : monitor_urls_wake(l)
    \/ \E n \in Names : get_status(n)
    \/ \E n \in Names : get_history(n)
    \/ \E name \in ExportScopes : download_history_csv(name)
    \/ \E n \in Names, u \in {ValidUrl, InvalidUrl} : create_monitor(n, u)
    \/ \E n \in Names : delete_monitor(n)

Spec == Init /\ [][Next]_vars

\* The scheduler alone, its probes drawing from the wider set of outcomes.
NextCheckUrl ==
    \/ Tick
    \/ startup_event
    \/ \E l \in Loops : start(l)
    \/ \E l \in Loops, i \in 1..Cardinality(Names), o \in WideOutcomes :
          ProbeReturns(l, i, o)
    \/ \E l \in Loops : monitor_urls_fan_in(l)
    \/ \E l \in Loops : monitor_urls_wake(l)

SpecCheckUrl == Init /\ [][NextCheckUrl]_vars

\* Two scheduler tasks: a task created by POST /monitoring/start while the
\* task of an earlier start() has not yet left its loop.  One endpoint, the
\* longest retention, no endpoint mutation.
TwoLoops == {1, 2}

InitTwo ==
    /\ now = 0
    /\ app = "init"
    /\ config_file = [urls |-> <<URLConfig("a", ValidUrl)>>,
                      monitoring |-> Monitoring(1, 1, MaxRetention)]
    /\ config = NoConfig
    /\ status_history = <<>>
    /\ running = FALSE
    /\ pc = [l \in TwoLoops |-> "none"]
    /\ tasks = [l \in TwoLoops |-> <<>>]
    /\ wake_at = [l \in TwoLoops |-> 0]
    /\ removed = [l \in TwoLoops |-> {}]
    /\ stop_seen = [l \in TwoLoops |-> FALSE]

\* asyncio.create_task queues the task's first step on the event loop: it
\* runs before the clock moves on and before a later request is handled.
TaskPending == \E l \in DOMAIN pc : pc[l] = "created"

NextTwo ==
    \/ ~TaskPending /\ Tick
    \/ startup_event
    \/ ~TaskPending /\ shutdown_event
    \/ ~TaskPending /\ start_monitoring
    \/ ~TaskPending /\ stop_monitoring
    \/ \E l \in TwoLoops : start(l)
    \/ \E l \in TwoLoops, i \in 1..Cardinality(Names), o \in Outcomes :
          ProbeReturns(l, i, o)
    \/ \E l \in TwoLoops : monitor_urls_fan_in(l)
    \/ \E l \in TwoLoops : monitor_urls_wake(l)

SpecTwo == InitTwo /\ [][NextTwo]_vars

\* The event loop runs every callback that is ready, time passes, and a
\* request ends with an answer, an error or its timeout.
FairTwo ==
    /\ WF_vars(~TaskPending /\ Tick)
    /\ \A l \in TwoLoops :
          /\ WF_vars(start(l))
          /\ WF_vars(\E i \in 1..Cardinality(Names), o \in Outcomes :
                        ProbeReturns(l, i, o))
          /\ WF_vars(monitor_urls_fan_in(l))
          /\ WF_vars(monitor_urls_wake(l))

SpecTwoFair == SpecTwo /\ FairTwo

\* ------------------------------------------------------------------------
\* The service started on a file that may fail to load: one file that loads,
\* one file per way of violating the validation, and one file whose two
\* entries carry the same name.
ValidFile ==
    [urls |-> <<URLConfig("a", ValidUrl)>>, monitoring |-> Monitoring(1, 1, 1)]

MalformedFile == NotJson("{invalid json")
EmptyObjectFile == [k \in {} |-> 0]
MissingUrlsFile == [monitoring |-> Monitoring(1, 1, 1)]
MissingMonitoringFile == [urls |-> <<URLConfig("a", ValidUrl)>>]
MissingUrlFieldFile ==
    [urls |-> <<[name |-> "a"]>>, monitoring |-> Monitoring(1, 1, 1)]
MissingTimeoutFile ==
    [urls |-> <<URLConfig("a", ValidUrl)>>,
     monitoring |-> [check_interval_seconds |-> 1,
                     history_retention_hours |-> 1]]
EmptyNameFile ==
    [urls |-> <<URLConfig("", ValidUrl)>>, monitoring |-> Monitoring(1, 1, 1)]
BadUrlFile ==
    [urls |-> <<URLConfig("a", ValidUrl), URLConfig("b", InvalidUrl)>>,
     monitoring |-> Monitoring(1, 1, 1)]
BadMonitoringFiles ==
    {[urls |-> <<URLConfig("a", ValidUrl)>>, monitoring |-> m] :
        m \in {Monitoring(0, 1, 1), Monitoring(-1, 1, 1), Monitoring(1, 0, 1),
               Monitoring(1, 1, 0), Monitoring(-1, 0, 0)}}

InvalidFiles ==
    {MalformedFile, EmptyObjectFile, MissingUrlsFile, MissingMonitoringFile,
     MissingUrlFieldFile, MissingTimeoutFile, EmptyNameFile, BadUrlFile}
        \cup BadMonitoringFiles

DuplicateNamesFile ==
    [urls |-> <<URLConfig("a", ValidUrl), URLConfig("a", HttpsUrl)>>,
     monitoring |-> Monitoring(1, 1, 1)]

InitLoad ==
    /\ now = 0
    /\ app = "init"
    /\ config_file \in {ValidFile, DuplicateNamesFile} \cup InvalidFiles
    /\ config = NoConfig
    /\ status_history = <<>>
    /\ running = FALSE
    /\ pc = [l \in Loops |-> "none"]
    /\ tasks = [l \in Loops |-> <<>>]
    /\ wake_at = [l \in Loops |-> 0]
    /\ removed = [l \in Loops |-> {}]
    /\ stop_seen = [l \in Loops |-> FALSE]

SpecLoad == InitLoad /\ [][Next]_vars

\* ------------------------------------------------------------------------
\* The scheduler under the fairness of the event loop, for progress: two
\* endpoints, the scheduler's own steps, stop and removal.
InitLive ==
    /\ now = 0
    /\ app = "init"
    /\ config_file = [urls |-> <<URLConfig("a", ValidUrl),
                                 URLConfig("b", ValidUrl)>>,
                      monitoring |-> Monitoring(1, 1, 1)]
    /\ config = NoConfig
    /\ status_history = <<>>
    /\ running = FALSE
    /\ pc = [l \in Loops |-> "none"]
    /\ tasks = [l \in Loops |-> <<>>]
    /\ wake_at = [l \in Loops |-> 0]
    /\ removed = [l \in Loops |-> {}]
    /\ stop_seen = [l \in Loops |-> FALSE]

NextLive ==
    \/ Tick
    \/ startup_event
    \/ stop_monitoring
    \/ \E l \in Loops : start(l)
    \/ \E l \in Loops, i \in 1..Cardinality(Names), o \in Outcomes :
          ProbeReturns(l, i, o)
    \/ \E l \in Loops : monitor_urls_fan_in(l)
    \/ \E l \in Loops : monitor_urls_wake(l)
    \/ \E n \in Names : delete_monitor(n)

\* The event loop runs every callback that is ready (the first step of a
\* created task, the return of gather, the end of a sleep), time passes, and
\* a request ends with an answer, an error or its timeout.
FairLive ==
    /\ WF_vars(Tick)
    /\ \A l \in Loops :
          /\ WF_vars(start(l))
          /\ WF_vars(\E i \in 1..Cardinality(Names), o \in Outcomes :
                        ProbeReturns(l, i, o))
          /\ WF_vars(monitor_urls_fan_in(l))
          /\ WF_vars(monitor_urls_wake(l))

SpecLive == InitLive /\ [][NextLive]_vars /\ FairLive

\* ------------------------------------------------------------------------
\* Eviction on windows of any content: the service is loaded, the scheduler
\* is not running, and the window of a holds any entries up to MaxHistory + 1,
\* of any age up to MaxRetention and in any order, as test_history_cleanup
\* sets it; then time passes and history queries evict.
TimestampedCheck(ts) == StatusCheck(ts, UP, Some(0), None)

Windows ==
    UNION {[1..k -> {TimestampedCheck(ts) : ts \in (0 - MaxRetention)..0}] :
              k \in 0..(MaxHistory + 1)}

InitCleanup ==
    /\ now = 0
    /\ app = "serving"
    /\ config_file \in {[urls |-> <<URLConfig("a", ValidUrl),
                                   URLConfig("b", ValidUrl)>>,
                         monitoring |-> m] : m \in MonitoringChoices}
    /\ config = config_file
    /\ status_history \in {[n \in {"a", "b"} |->
                               IF n = "a" THEN h ELSE g] :
                              h \in Windows,
                              g \in {<<>>, <<TimestampedCheck(0)>>}}
    /\ running = FALSE
    /\ pc = [l \in Loops |-> "none"]
    /\ tasks = [l \in Loops |-> <<>>]
    /\ wake_at = [l \in Loops |-> 0]
    /\ removed = [l \in Loops |-> {}]
    /\ stop_seen = [l \in Loops |-> FALSE]

NextCleanup ==
    \/ Tick
    \/ \E n \in Names : get_history(n)

SpecCleanup == InitCleanup /\ [][NextCleanup]_vars

\* ================================================================== claims
Retention == config.monitoring.history_retention_hours
Registered(n) == config # NoConfig /\ n \in NameSet(config.urls)
HasWindow(n) == n \in DOMAIN status_history
Last(h) == h[Len(h)]
Stored == {status_history[n][j] : <<n, j>> \in
              {<<m, k>> \in (DOMAIN status_history) \X (1..(MaxHistory + 2)) :
                  k <= Len(status_history[m])}}
DoneProbes == {tasks[l][i] : <<l, i>> \in
                  {<<m, k>> \in Loops \X (1..Cardinality(Names)) :
                      k <= Len(tasks[m]) /\ tasks[m][k].done}}
\* The step is the fan-in of task l: gather has returned (or raised).
FanInStep(l) == pc[l] = "gather" /\ pc'[l] \in {"sleep", "crashed"}
\* Task l finished a fan-in at this very instant and now sleeps.
JustFannedIn(l) ==
    /\ pc[l] = "sleep"
    /\ wake_at[l] = now + config.monitoring.check_interval_seconds
Launched(l) == [i \in 1..Len(tasks[l]) |-> tasks[l][i].url_config]

\* C1: a cycle's fan-in never ends the task, and gives every endpoint of the
\* cycle that was not removed meanwhile exactly one new entry, a result of
\* this cycle (its own probe's result when the registry did not change);
\* when nothing is old enough to be evicted the window grows by exactly one.
C1_OneResultPerEndpointPerCycle ==
    [][\A l \in Loops : FanInStep(l) =>
        /\ pc'[l] = "sleep"
        /\ \A i \in 1..Len(tasks[l]) :
              LET n == tasks[l][i].url_config.name
              IN n \notin removed[l] =>
                 /\ HasWindow(n) /\ n \in DOMAIN status_history'
                 /\ \E k \in 1..Len(tasks[l]) :
                       /\ ~tasks[l][k].ret.raised
                       /\ status_history'[n] =
                             KeptAfter(Append(status_history[n],
                                              tasks[l][k].ret.value),
                                       now - Retention)
                       /\ config.urls = Launched(l) => k = i
                 /\ (\A j \in 1..Len(status_history[n]) :
                        status_history[n][j].timestamp > now - Retention)
                    /\ tasks[l][i].start_time > now - Retention
                    => Len(status_history'[n]) = Len(status_history[n]) + 1
       ]_vars

\* C1 witness: a second cycle over two endpoints has just fanned in; the
\* first probe failed, the second answered, both windows end with their
\* probe's result and the first window holds two entries after two cycles.
C1_Witness ==
    \E l \in Loops :
        /\ JustFannedIn(l)
        /\ Len(tasks[l]) = 2
        /\ removed[l] = {}
        /\ config.urls = Launched(l)
        /\ tasks[l][1].outcome = Raised(ClientError)
        /\ tasks[l][2].outcome = Responded(399)
        /\ \A i \in 1..2 :
              /\ HasWindow(tasks[l][i].url_config.name)
              /\ status_history[tasks[l][i].url_config.name] # <<>>
              /\ Last(status_history[tasks[l][i].url_config.name])
                    = tasks[l][i].ret.value
        /\ Len(status_history[tasks[l][1].url_config.name]) = 2
        /\ Last(status_history[tasks[l][1].url_config.name]).status = DOWN

\* C2: check_url returns a StatusCheck for every outcome of the request, so
\* no probe hands an exception to gather and no scheduler task dies of one.
C2_CheckUrlNeverRaises ==
    /\ \A p \in DoneProbes : ~p.ret.raised
    /\ \A l \in Loops : pc[l] # "crashed"

\* C2 witness: one cycle whose probes ended in a transport error and in a
\* timeout, both returned.
C2_Witness ==
    \E l \in Loops :
        /\ Len(tasks[l]) = 2
        /\ tasks[l][1].done /\ tasks[l][1].outcome = Raised(ClientError)
        /\ tasks[l][2].done /\ tasks[l][2].outcome = Raised(TimeoutError)
        /\ pc[l] = "sleep"

\* C3: the classification of each probe outcome: status < 400 is UP with
\* response_time and no error; status >= 400 is DOWN with response_time and
\* error "HTTP <code>"; a timeout is DOWN, no response_time, error "Timeout";
\* any other failure is DOWN, no response_time, error the failure's text.
C3_Classification ==
    \A p \in DoneProbes :
        LET v == p.ret.value
            o == p.outcome
        IN /\ ~p.ret.raised
           /\ o.kind = "response" /\ o.status < 400 =>
                 /\ v.status = UP
                 /\ v.response_time = <<p.elapsed>>
                 /\ v.error = <<>>
           /\ o.kind = "response" /\ o.status >= 400 =>
                 /\ v.status = DOWN
                 /\ v.response_time = <<p.elapsed>>
                 /\ o.status = 400 => v.error = <<"HTTP 400">>
                 /\ o.status = 404 => v.error = <<"HTTP 404">>
                 /\ o.status = 500 => v.error = <<"HTTP 500">>
                 /\ o.status \in {400, 404, 500}
           /\ o.kind = "raise" /\ o.exc.class = "TimeoutError" =>
                 /\ v.status = DOWN
                 /\ v.response_time = <<>>
                 /\ v.error = <<"Timeout">>
           /\ o.kind = "raise" /\ o.exc.class # "TimeoutError" =>
                 /\ v.status = DOWN
                 /\ v.response_time = <<>>
                 /\ v.error = <<o.exc.msg>>

\* C3 witness: a cycle with a 404 answer and a timed-out probe, both returned.
C3_Witness ==
    \E l \in Loops :
        /\ Len(tasks[l]) = 2
        /\ tasks[l][1].done /\ tasks[l][1].outcome = Responded(404)
        /\ tasks[l][2].done /\ tasks[l][2].outcome = Raised(TimeoutError)
        /\ tasks[l][2].elapsed = config.monitoring.timeout_seconds

\* C4: every stored UP entry has a response_time and no error, and every
\* stored DOWN entry has an error.
C4_StoredResultsWellFormed ==
    \A e \in Stored :
        /\ e.status = UP => e.response_time # <<>> /\ e.error = <<>>
        /\ e.status = DOWN => e.error # <<>>

\* C4 witness: one window holds an UP entry and a DOWN entry of an HTTP
\* error status.
C4_Witness ==
    \E n \in DOMAIN status_history :
        /\ Len(status_history[n]) = 2
        /\ status_history[n][1].status = UP
        /\ status_history[n][2].status = DOWN
        /\ status_history[n][2].response_time # <<>>

\* C5: UNKNOWN is never the status of a probe's result nor of a stored entry;
\* current_status answers UNKNOWN only for an endpoint with an empty history.
C5_UnknownOnlySynthesized ==
    /\ \A p \in DoneProbes : p.ret.value.status # UNKNOWN
    /\ \A e \in Stored : e.status # UNKNOWN
    /\ \A n \in Names :
          LET r == get_url_status(config, status_history, n, now)
          IN r.result # <<>> /\ r.result[1].current_status = UNKNOWN
                => HasWindow(n) /\ status_history[n] = <<>>

\* C5 witness: current_status is UNKNOWN for one endpoint while the other
\* endpoint's window holds the result of a failed probe.
C5_Witness ==
    \E n, m \in Names :
        /\ Registered(n) /\ Registered(m)
        /\ get_url_status(config, status_history, n, now).result # <<>>
        /\ get_url_status(config, status_history, n, now).result[1].current_status
              = UNKNOWN
        /\ HasWindow(m) /\ status_history[m] # <<>>
        /\ Last(status_history[m]).error = <<"Cannot connect to host">>

\* The names whose windows the fan-in of task l appends to and cleans up.
Paired(l) == {config.urls[k].name : k \in 1..Min(Len(config.urls), Len(tasks[l]))}
\* The step runs eviction on the window of n: a history read of a known
\* endpoint, or a fan-in that appends to it.
EvictionRuns(n) ==
    \/ get_history(n) /\ Registered(n) /\ HasWindow(n)
    \/ \E l \in Loops : FanInStep(l) /\ pc'[l] = "sleep" /\ n \in Paired(l)
StatusView(n) == get_url_status(config, status_history, n, now)
HistoryView(n) == get_url_history(config, status_history, n, now)

\* C6: after eviction has run on a window at time now, every entry left has
\* a timestamp strictly greater than now - history_retention_hours; an entry
\* exactly at the cutoff is gone.
C6_EvictionIsStrict ==
    [][\A n \in Names : EvictionRuns(n) =>
          /\ n \in DOMAIN status_history'
          /\ \A j \in 1..Len(status_history'[n]) :
                status_history'[n][j].timestamp > now - Retention
       ]_vars

\* C6 witness: a fan-in has just appended a result whose timestamp is exactly
\* now - history_retention_hours, and the window does not hold it.
C6_Witness ==
    \E l \in Loops :
        /\ JustFannedIn(l)
        /\ Len(tasks[l]) >= 1
        /\ removed[l] = {}
        /\ config.urls = Launched(l)
        /\ tasks[l][1].start_time = now - Retention
        /\ HasWindow(tasks[l][1].url_config.name)
        /\ \A j \in 1..Len(status_history[tasks[l][1].url_config.name]) :
              status_history[tasks[l][1].url_config.name][j]
                 # tasks[l][1].ret.value

\* C7: history(name) of a known endpoint evicts and then answers with the
\* window: every entry of the answer is newer than now - retention, and the
\* answer is the window the call leaves in the store.
C7_HistoryAnswerIsFresh ==
    \A n \in Names : Registered(n) /\ HasWindow(n) =>
        LET r == HistoryView(n)
        IN /\ r.raised = ""
           /\ r.result # <<>>
           /\ r.result[1].name = n
           /\ \A j \in 1..Len(r.result[1].history) :
                 r.result[1].history[j].timestamp > now - Retention
           /\ r.hist[n] = r.result[1].history

\* C7 witness: after an idle period a window holds a stale entry and a fresh
\* one; the answer holds the fresh one only.
C7_Witness ==
    \E n \in Names :
        /\ Registered(n) /\ HasWindow(n)
        /\ app = "serving"
        /\ Len(status_history[n]) = 2
        /\ status_history[n][1].timestamp <= now - Retention
        /\ HistoryView(n).result # <<>>
        /\ HistoryView(n).result[1].history = <<status_history[n][2]>>

\* C8: current_status never reports the fields of an entry whose timestamp is
\* at or before now - history_retention_hours.
C8_StatusNeverStale ==
    \A n \in Names :
        LET r == StatusView(n)
        IN r.result # <<>> /\ r.result[1].current_status # UNKNOWN
              => r.result[1].last_check > now - Retention

\* C9: current_status of a registered endpoint with an empty window is
\* UNKNOWN, without response_time, with last_check the current time.
C9_EmptyHistoryIsUnknown ==
    \A n \in Names : Registered(n) /\ HasWindow(n) /\ status_history[n] = <<>> =>
        LET r == StatusView(n)
        IN /\ r.raised = ""
           /\ r.result # <<>>
           /\ r.result[1].name = n
           /\ r.result[1].current_status = UNKNOWN
           /\ r.result[1].response_time = <<>>
           /\ r.result[1].last_check = now

\* C9 witness: time has passed, a scheduler task sleeps after a cycle, and a
\* registered endpoint has an empty window.
C9_Witness ==
    \E n \in Names :
        /\ Registered(n) /\ HasWindow(n) /\ status_history[n] = <<>>
        /\ now >= 1
        /\ \E l \in Loops : pc[l] = "sleep"
        /\ StatusView(n).result # <<>>

\* C10: current_status of a registered endpoint with a non-empty window
\* carries status, timestamp, response_time and error of the entry appended
\* last: the last entry of the window, which right after a fan-in is the
\* result that fan-in appended for the endpoint.
C10_StatusIsLatestResult ==
    /\ \A n \in Names : Registered(n) /\ HasWindow(n) /\ status_history[n] # <<>> =>
          LET r == StatusView(n)
              latest == Last(status_history[n])
          IN /\ r.raised = ""
             /\ r.result # <<>>
             /\ r.result[1].current_status = latest.status
             /\ r.result[1].last_check = latest.timestamp
             /\ r.result[1].response_time = latest.response_time
             /\ r.result[1].error = latest.error
    /\ \A l \in Loops :
          JustFannedIn(l) /\ removed[l] = {} /\ config.urls = Launched(l) =>
             \A i \in 1..Len(tasks[l]) :
                LET n == tasks[l][i].url_config.name
                    v == tasks[l][i].ret.value
                IN HasWindow(n) /\ status_history[n] # <<>>
                   /\ v.timestamp > now - Retention =>
                      /\ StatusView(n).result # <<>>
                      /\ StatusView(n).result[1].current_status = v.status
                      /\ StatusView(n).result[1].last_check = v.timestamp
                      /\ StatusView(n).result[1].response_time = v.response_time
                      /\ StatusView(n).result[1].error = v.error

\* C10 witness: a window holds an older UP entry and a newer DOWN entry that
\* a fan-in has just appended; current_status reports the DOWN one.
C10_Witness ==
    \E l \in Loops :
        /\ JustFannedIn(l)
        /\ removed[l] = {} /\ config.urls = Launched(l)
        /\ Len(tasks[l]) >= 1
        /\ LET n == tasks[l][1].url_config.name
           IN /\ HasWindow(n)
              /\ Len(status_history[n]) = 2
              /\ status_history[n][1].status = UP
              /\ status_history[n][2] = tasks[l][1].ret.value
              /\ status_history[n][2].status = DOWN
              /\ StatusView(n).result # <<>>
              /\ StatusView(n).result[1].current_status = DOWN

C12_WindowsChronological ==
    \A n \in DOMAIN status_history :
        \A j \in 1..(Len(status_history[n]) - 1) :
            status_history[n][j].timestamp <= status_history[n][j + 1].timestamp

\* The step launches the probes of a new cycle of task l.
LaunchStep(l) == pc[l] # "gather" /\ pc'[l] = "gather"

\* C13: the probes of a cycle are launched only while the flag is set: a loop
\* that wakes from its sleep launches only if running is true, and the only
\* other launch is start(), which sets the flag; no step launches probes and
\* leaves the scheduler stopped.
C13_NoLaunchWhileStopped ==
    [][\A l \in DOMAIN pc : LaunchStep(l) =>
          /\ running'
          /\ pc[l] = "sleep" => running
          /\ pc[l] # "sleep" => pc[l] = "created"
       ]_vars

\* C13 witness: the scheduler was stopped while its loop slept after a cycle;
\* the loop woke, launched nothing and ended, and the scheduler is still
\* stopped with the result of the earlier cycle in the store.
C13_Witness ==
    \E l \in DOMAIN pc :
        /\ app = "serving"
        /\ ~running
        /\ pc[l] = "done"
        /\ tasks[l] = <<>>
        /\ \E n \in DOMAIN status_history : status_history[n] # <<>>

\* The step is a stop(): the flag goes from set to cleared.
StopStep == running /\ ~running'

\* C14: a stop() leaves every scheduler task and every probe in flight as it
\* was, and the fan-in of a cycle that was stopped while in flight still
\* appends the result of each of its probes to the window of the probe's
\* endpoint (then evicts), as it does for a cycle that was not stopped.
C14_StopLeavesCycleInFlight ==
    [][/\ StopStep => UNCHANGED <<pc, tasks, status_history, wake_at>>
       /\ \A l \in DOMAIN pc :
             FanInStep(l) /\ ~running /\ removed[l] = {}
             /\ config.urls = Launched(l) =>
                /\ pc'[l] = "sleep"
                /\ \A i \in 1..Len(tasks[l]) :
                      LET n == tasks[l][i].url_config.name
                          v == tasks[l][i].ret.value
                      IN /\ tasks[l][i].done
                         /\ n \in DOMAIN status_history'
                         /\ status_history'[n] =
                               KeptAfter(Append(status_history[n], v),
                                         now - Retention)
                         /\ v.timestamp > now - Retention =>
                               Last(status_history'[n]) = v
      ]_vars

\* C14 witness: the scheduler was stopped by a request while a cycle over two
\* endpoints was in flight (a cycle is launched only with the flag set), and
\* both probes have completed since their launch in an earlier instant.
C14_Witness ==
    \E l \in DOMAIN pc :
        /\ app = "serving"
        /\ ~running
        /\ pc[l] = "gather"
        /\ Len(tasks[l]) = 2
        /\ AllDone(tasks[l])
        /\ tasks[l][1].elapsed = 1
        /\ removed[l] = {}

\* Task l has left monitor_urls.
Exited(l) == pc[l] \in {"done", "crashed"}

\* C15: a loop that was inside monitor_urls when stop() ran leaves the loop at
\* its next loop test, the one after the current fan-in and the current
\* sleep, and a loop is left only there, never with a cycle in flight.
C15_StoppedLoopExits ==
    [][\A l \in DOMAIN pc :
          /\ pc[l] = "sleep" /\ pc'[l] # "sleep" /\ stop_seen[l]
                => pc'[l] = "done"
          /\ pc[l] # "done" /\ pc'[l] = "done" => pc[l] = "sleep"
      ]_vars

\* Under fairness a loop stopped in its sleep does leave, unless a start is
\* requested before it has woken (the sleep ending within the modelled time).
StoppedLoopExitsUnlessRestarted ==
    \A l \in TwoLoops :
        [](~running /\ pc[l] = "sleep" /\ wake_at[l] <= MaxTime
              => <>(Exited(l) \/ running \/ TaskPending))

\* C16: stop() on a stopped service raises nothing and leaves it stopped, and
\* from any state a second stop() leaves what the first one left.
C16_StopIsIdempotent ==
    /\ ~running =>
          /\ stop(running).raised = ""
          /\ stop(running).running = FALSE
    /\ stop(stop(running).running) = stop(running)

\* C16 witness: the service was started and stopped and its loop has ended;
\* the application still serves, so its shutdown will call stop() again.
C16_Witness ==
    /\ app = "serving"
    /\ ~running
    /\ config # NoConfig
    /\ \E l \in DOMAIN pc : pc[l] = "done"
    /\ stop(running).running = running

\* C17: at most one scheduler loop has a cycle in flight at any time.
C17_AtMostOneLoop ==
    Cardinality({l \in DOMAIN pc : pc[l] = "gather"}) <= 1

\* C18: POST /monitoring/start on a running scheduler answers with an error
\* and changes nothing (no task is created); POST /monitoring/stop on a
\* stopped scheduler answers with an error and changes nothing; GET
\* /monitoring/status answers with the value of the running flag.
C18_RoutesRefuseRequestedState ==
    [][/\ start_monitoring /\ running =>
             /\ start_monitoring_returns(running).raised
             /\ start_monitoring_returns(running).status_code = 400
             /\ UNCHANGED vars
       /\ stop_monitoring /\ ~running =>
             /\ stop_monitoring_returns(running).raised
             /\ stop_monitoring_returns(running).status_code = 400
             /\ UNCHANGED vars
       /\ ~monitoring_status(running).raised
       /\ monitoring_status(running).body.running = running
      ]_vars

\* C18 witness: the scheduler was stopped and started again and is running
\* with a cycle of the second task in flight; a start request is refused.
C18_Witness ==
    /\ app = "serving"
    /\ running
    /\ ~TaskPending
    /\ pc[1] = "done"
    /\ pc[2] = "gather"
    /\ start_monitoring_returns(running).status_code = 400
    /\ monitoring_status(running).body.running

\* C19: in every state an operation can observe, the registered endpoints
\* are exactly the names that have a window; an endpoint added at run time
\* is never registered without its window, nor its window present without it.
C19_EndpointAndWindowTogether ==
    /\ config = NoConfig => status_history = <<>>
    /\ config # NoConfig =>
          \A n \in Names : Registered(n) <=> HasWindow(n)

\* C19 witness: an endpoint was added while a cycle over the one endpoint of
\* the initial configuration was in flight; it is registered, persisted, and
\* has an empty window.
C19_Witness ==
    \E l \in DOMAIN pc :
        /\ pc[l] = "gather"
        /\ Len(tasks[l]) = 1
        /\ removed[l] = {}
        /\ config # NoConfig
        /\ Len(config.urls) = 2
        /\ config_file.urls = config.urls
        /\ HasWindow(config.urls[2].name)
        /\ status_history[config.urls[2].name] = <<>>

\* current_status(n) answers with a status view whose status is UNKNOWN.
AnswersUnknown(r) ==
    /\ r.raised = ""
    /\ r.result # <<>>
    /\ r.result[1].current_status = UNKNOWN

\* C20: right after a successful add of n, current_status(n) answers with a
\* view of status UNKNOWN, whether or not the scheduler is running; and as
\* long as no fan-in completes and n stays registered, every later step
\* leaves that answer UNKNOWN.
C20_AddedEndpointIsUnknown ==
    [][/\ \A n \in Names, u \in {ValidUrl, InvalidUrl} :
             create_monitor(n, u)
             /\ add_url_monitor(config, status_history, n, u).raised = "" =>
                AnswersUnknown(get_url_status(config', status_history', n, now'))
       /\ \A n \in Names :
             /\ Registered(n) /\ HasWindow(n) /\ status_history[n] = <<>>
             /\ ~(\E l \in DOMAIN pc : FanInStep(l))
             /\ config' # NoConfig /\ n \in NameSet(config'.urls)
             => AnswersUnknown(get_url_status(config', status_history', n, now'))
      ]_vars

\* C20 witness: the scheduler is running with a cycle in flight that was
\* launched before the endpoint was added, time has passed since the launch,
\* and current_status of the added endpoint is UNKNOWN while the first
\* endpoint already has a result from an earlier cycle.
C20_Witness ==
    \E l \in DOMAIN pc :
        /\ running
        /\ app = "serving"
        /\ pc[l] = "gather"
        /\ Len(tasks[l]) = 1
        /\ tasks[l][1].start_time < now
        /\ removed[l] = {}
        /\ config # NoConfig /\ Len(config.urls) = 2
        /\ AnswersUnknown(StatusView(config.urls[2].name))
        /\ status_history[config.urls[1].name] # <<>>

Urls == {ValidUrl, InvalidUrl}
AddView(n, u) == add_url_monitor(config, status_history, n, u)

\* C21: adding a name that is registered fails with a ValueError whose text
\* says "already exists", whatever the url; the add leaves registry and
\* windows as they were, and the request changes nothing, the persisted
\* endpoint set included.
C21_DuplicateAddIsRefused ==
    [][\A n \in Names, u \in Urls : Registered(n) =>
          LET added == AddView(n, u)
          IN /\ added.raised = "ValueError"
             /\ added.msg = "already exists"
             /\ added.result = None
             /\ added.cfg = config
             /\ added.hist = status_history
             /\ (pc' = pc /\ now' = now /\ create_monitor(n, u)) =>
                   UNCHANGED vars
      ]_vars

\* C21 witness: the service answers requests, an endpoint is registered with
\* a recorded result, and adding its name again is refused.
C21_Witness ==
    \E n \in Names :
        /\ app = "serving"
        /\ Registered(n) /\ HasWindow(n) /\ status_history[n] # <<>>
        /\ AddView(n, ValidUrl).raised = "ValueError"
        /\ config_file.urls = config.urls

TruncatedUrl == <<"h", "t", "t", "p", ":", "/">>
BadUrls == {InvalidUrl, TruncatedUrl, <<>>}
GoodUrls == {ValidUrl, HttpsUrl}

\* C22: adding an unregistered name with a url that does not begin with
\* http:// or https:// fails with a validation error and leaves registry and
\* windows as they were (the request changes nothing); a url that does begin
\* so is accepted.
C22_BadUrlIsRefused ==
    [][\A n \in Names : config # NoConfig /\ ~Registered(n) =>
          /\ \A u \in BadUrls :
                /\ AddView(n, u).raised = "ValidationError"
                /\ AddView(n, u).result = None
                /\ AddView(n, u).cfg = config
                /\ AddView(n, u).hist = status_history
          /\ \A u \in GoodUrls : AddView(n, u).raised = ""
          /\ create_monitor(n, InvalidUrl) => UNCHANGED vars
      ]_vars

\* C22 witness: the service answers requests with one endpoint registered
\* and checked; adding another name with an ftp url is refused.
C22_Witness ==
    \E n, m \in Names :
        /\ app = "serving"
        /\ config # NoConfig /\ ~Registered(n)
        /\ Registered(m) /\ HasWindow(m) /\ status_history[m] # <<>>
        /\ AddView(n, InvalidUrl).raised = "ValidationError"
        /\ ~HasWindow(n)

DeleteView(n) == delete_url_monitor(config, status_history, n)
\* The answers of current_status(n) and history(n) in the state after the step.
StatusViewAfter(n) == get_url_status(config', status_history', n, now')
HistoryViewAfter(n) == get_url_history(config', status_history', n, now')

\* C23: removing a registered name returns its endpoint and leaves neither
\* the endpoint nor its window; from then on current_status and history of
\* the name answer None, and the name becomes registered again only by a
\* successful add of that name.
C23_RemovedEndpointIsGone ==
    [][\A n \in Names :
          /\ Registered(n) =>
                LET deleted == DeleteView(n)
                IN /\ deleted.raised = ""
                   /\ deleted.result = FindUrl(config.urls, n)
                   /\ deleted.result # None
                   /\ deleted.result[1].name = n
                   /\ n \notin NameSet(deleted.cfg.urls)
                   /\ n \notin DOMAIN deleted.hist
          /\ (Registered(n) /\ config' # config /\ delete_monitor(n)) =>
                /\ n \notin NameSet(config'.urls)
                /\ n \notin DOMAIN status_history'
                /\ StatusViewAfter(n).raised = ""
                /\ StatusViewAfter(n).result = None
                /\ HistoryViewAfter(n).raised = ""
                /\ HistoryViewAfter(n).result = None
          /\ (config # NoConfig /\ ~Registered(n) /\ config' # NoConfig) =>
                \/ /\ n \notin NameSet(config'.urls)
                   /\ StatusViewAfter(n).result = None
                   /\ HistoryViewAfter(n).result = None
                \/ \E u \in Urls : create_monitor(n, u) /\ AddView(n, u).raised = ""
      ]_vars

\* C23 witness: the first endpoint of a two-endpoint configuration was
\* removed after a cycle had recorded results; the other endpoint keeps its
\* results, and the removed name has no window and no answer.
C23_Witness ==
    /\ app = "serving"
    /\ config # NoConfig
    /\ Len(config.urls) = 1
    /\ config.urls[1].name = "b"
    /\ config_file.urls = config.urls
    /\ ~HasWindow("a")
    /\ HasWindow("b") /\ status_history["b"] # <<>>
    /\ StatusView("a").result = None
    /\ HistoryView("a").result = None

\* C24: with the configuration loaded, removing a name that is not
\* registered raises nothing and returns None, registry and windows are as
\* before, and the request changes nothing, the persisted endpoint set
\* included.
C24_RemoveUnknownIsAbsent ==
    [][\A n \in Names : config # NoConfig /\ ~Registered(n) =>
          /\ DeleteView(n).raised = ""
          /\ DeleteView(n).result = None
          /\ DeleteView(n).cfg = config
          /\ DeleteView(n).hist = status_history
          /\ delete_monitor(n) => UNCHANGED vars
      ]_vars

\* C24 witness: a scheduler cycle is in flight over the single registered
\* endpoint, which has an earlier result; the other name is not registered
\* and removing it finds nothing.
C24_Witness ==
    \E n, m \in Names, l \in DOMAIN pc :
        /\ app = "serving"
        /\ config # NoConfig /\ ~Registered(n)
        /\ Registered(m) /\ HasWindow(m) /\ status_history[m] # <<>>
        /\ pc[l] = "gather" /\ Len(tasks[l]) = 1
        /\ DeleteView(n).result = None
        /\ DeleteView(n).raised = ""

\* C25: once the configuration is loaded, the endpoint set in the
\* configuration file is the registry in memory, after every add and remove
\* and whatever the scheduler does in between.
C25_PersistedEqualsRegistry ==
    config # NoConfig =>
        /\ config_file.urls = config.urls
        /\ config_file.monitoring = config.monitoring

\* C25 witness: from a configuration of two endpoints the first was removed
\* and added again, so it now comes second, in memory and in the file.
C25_Witness ==
    /\ config # NoConfig
    /\ Len(config.urls) = 2
    /\ config.urls[1].name = "b"
    /\ config.urls[2].name = "a"
    /\ config_file.urls = config.urls
    /\ HasWindow("a") /\ HasWindow("b")

\* C26: when endpoints were removed while the cycle of task l was in flight,
\* the fan-in ends without error and the loop goes on to its sleep; the
\* result of a removed endpoint's probe goes nowhere, and every endpoint of
\* the cycle that is still registered gets the result of its own probe.
C26_RemovedResultIsDropped ==
    [][\A l \in DOMAIN pc : FanInStep(l) /\ removed[l] # {} =>
          /\ pc'[l] = "sleep"
          /\ \A i \in 1..Len(tasks[l]) :
                LET n == tasks[l][i].url_config.name
                    v == tasks[l][i].ret.value
                IN /\ n \in removed[l] /\ ~Registered(n) =>
                         n \notin DOMAIN status_history'
                   /\ n \notin removed[l] /\ Registered(n) /\ HasWindow(n) =>
                         /\ n \in DOMAIN status_history'
                         /\ status_history'[n] =
                               KeptAfter(Append(status_history[n], v),
                                         now - Retention)
      ]_vars

LaunchedNames(l) == {tasks[l][i].url_config.name : i \in 1..Len(tasks[l])}
\* The endpoints registered now that the cycle in flight of task l did not
\* launch a probe for: they were added after the launch.
AddedInFlight(l) ==
    {n \in Names : Registered(n) /\ n \notin LaunchedNames(l)}

\* C27: the fan-in of a cycle ends without error and leaves the window of
\* every endpoint added during the cycle as it was; the next launch of the
\* loop probes every registered endpoint, the added ones included.
C27_AddedEndpointWaitsForNextCycle ==
    [][\A l \in DOMAIN pc :
          /\ FanInStep(l) =>
                /\ pc'[l] = "sleep"
                /\ \A n \in AddedInFlight(l) :
                      /\ n \in DOMAIN status_history'
                      /\ status_history'[n] = status_history[n]
          /\ LaunchStep(l) =>
                \A n \in Names :
                    n \in NameSet(config'.urls) =>
                       \E i \in 1..Len(tasks'[l]) :
                           /\ tasks'[l][i].url_config.name = n
                           /\ ~tasks'[l][i].done
      ]_vars

\* The same for cycles during which no endpoint was removed.
AddedEndpointWaitsUnlessRemoval ==
    [][\A l \in DOMAIN pc :
          FanInStep(l) /\ removed[l] = {} =>
             /\ pc'[l] = "sleep"
             /\ \A n \in AddedInFlight(l) :
                   /\ n \in DOMAIN status_history'
                   /\ status_history'[n] = status_history[n]
      ]_vars

\* C28: while a probe of the cycle in flight has not returned, the task stays
\* at gather and no window gains an entry; the fan-in, which appends and
\* then sleeps, is taken only when every probe of the cycle has returned.
C28_FanInIsBarrier ==
    [][\A l \in DOMAIN pc :
          /\ FanInStep(l) => AllDone(tasks[l])
          /\ pc[l] = "gather" /\ ~AllDone(tasks[l]) =>
                /\ pc'[l] = "gather"
                /\ wake_at'[l] = wake_at[l]
                /\ \A n \in (DOMAIN status_history) \cap (DOMAIN status_history') :
                      Len(status_history'[n]) <= Len(status_history[n])
                /\ \A n \in (DOMAIN status_history') \ (DOMAIN status_history) :
                      status_history'[n] = <<>>
      ]_vars

\* C28 witness: of the two probes of a cycle one has returned and one has
\* not, a tick after the launch; the task waits at gather and both windows
\* are still empty.
C28_Witness ==
    \E l \in DOMAIN pc :
        /\ pc[l] = "gather"
        /\ Len(tasks[l]) = 2
        /\ tasks[l][1].done /\ ~tasks[l][2].done
        /\ now = tasks[l][2].start_time + 1
        /\ removed[l] = {} /\ config.urls = Launched(l)
        /\ \A i \in 1..2 :
              /\ HasWindow(tasks[l][i].url_config.name)
              /\ status_history[tasks[l][i].url_config.name] = <<>>

\* C29: loading a config file that violates the validation (an empty endpoint
\* name, a url that does not begin with http:// or https://, one of the three
\* monitoring durations not > 0, a missing field, text that is not JSON)
\* raises to the caller: JSONDecodeError for the malformed text,
\* ValidationError for the others.  Inside start() the task ends there: the
\* running flag is never set, no config is assigned, no window is created and
\* no probe is launched.
C29_InvalidConfigIsFatalToStart ==
    [][(config_file \in InvalidFiles) =>
          /\ load_config(config_file, config, status_history).raised =
                IF config_file = MalformedFile
                THEN "JSONDecodeError" ELSE "ValidationError"
          /\ ~running /\ ~running'
          /\ config = NoConfig /\ config' = NoConfig
          /\ status_history' = <<>>
          /\ \A l \in DOMAIN pc :
                /\ tasks'[l] = <<>>
                /\ pc'[l] \notin {"gather", "sleep"}
                /\ pc[l] = "created" /\ pc'[l] # "created" =>
                      pc'[l] = "crashed"]_vars

C29_Witness ==
    /\ config_file \in InvalidFiles
    /\ app = "serving"
    /\ \E l \in DOMAIN pc : pc[l] = "crashed"
    /\ ~running
    /\ config = NoConfig

\* C30: endpoint names are unique in the registry in every reachable state:
\* after the config load and after any sequence of adds and removes, no two
\* registered endpoints carry the same name.
C30_NamesAreUnique ==
    config # NoConfig =>
        \A i, j \in 1..Len(config.urls) :
            config.urls[i].name = config.urls[j].name => i = j

\* C31: once the config is loaded, a window exists for a name exactly when
\* the name is a registered endpoint.  Every step keeps it so, across load,
\* add, remove, start and stop: a name that becomes registered gets a window
\* in the same step, empty unless the name kept one from before, and a name
\* that stops being registered loses its window in the same step.
C31_WindowIffRegistered ==
    [][(config' # NoConfig) =>
          /\ DOMAIN status_history' = NameSet(config'.urls)
          /\ \A n \in (DOMAIN status_history') \ (DOMAIN status_history) :
                status_history'[n] = <<>>
          /\ \A n \in Names :
                Registered(n) /\ n \notin NameSet(config'.urls) =>
                    n \notin DOMAIN status_history']_vars

\* C31 witness: after the load of a file with a and b, a was removed; a cycle
\* has stored a result for b, the only name with a window.
C31_Witness ==
    /\ config # NoConfig
    /\ NameSet(config.urls) = {"b"}
    /\ DOMAIN status_history = {"b"}
    /\ Len(status_history["b"]) >= 1
    /\ "a" \notin NameSet(config_file.urls)
    /\ running

\* The model's bounds stop a sleeping task: the clock has reached MaxTime
\* before the sleep ends, or a window has no room for another cycle.
AtHorizon(l) ==
    \/ now = MaxTime /\ wake_at[l] > MaxTime
    \/ ~HasRoom(status_history)

\* C32: one endpoint's failures never block the scheduler or the other
\* endpoints.  Every cycle in flight eventually completes (the task reaches
\* its sleep), whatever the probes' outcomes, since each probe returns within
\* its timeout; and while the scheduler stays running, every endpoint that
\* stays registered is eventually probed again in a further cycle, up to the
\* horizon of the model.
C32_FailureDoesNotBlockProgress ==
    \A l \in Loops : \A n \in Names :
        /\ (pc[l] = "gather") ~> (pc[l] = "sleep")
        /\ (pc[l] = "sleep" /\ running /\ Registered(n)) ~>
              \/ pc[l] = "gather" /\ n \in LaunchedNames(l)
              \/ ~running
              \/ ~Registered(n)
              \/ AtHorizon(l)

\* C32 witness: the probe of b timed out in the first cycle and that of a
\* was answered; both endpoints are being probed again in the second cycle.
C32_Witness ==
    \E l \in Loops :
        /\ pc[l] = "gather"
        /\ running
        /\ Len(tasks[l]) = 2
        /\ LaunchedNames(l) = {"a", "b"}
        /\ tasks[l][1].start_time = 1
        /\ DOMAIN status_history = {"a", "b"}
        /\ status_history["a"] # <<>> /\ Last(status_history["a"]).status = UP
        /\ status_history["b"] # <<>>
        /\ Last(status_history["b"]).status = DOWN
        /\ Last(status_history["b"]).timestamp = 0
        /\ Last(status_history["b"]).response_time = None

\* The entries of a window that are inside the retention window at `clock`.
InRetention(h, clock, retention) ==
    LET fresh(check) == check.timestamp > clock - retention
    IN SelectSeq(h, fresh)

\* C33: appends and evictions on one window are serialized.  In every step,
\* whichever of the scheduler's append-then-evict and a query's eviction it
\* is, the entries of a window that are inside the retention window stay as
\* they were, in their order, each once; the only change is one result of the
\* cycle appended at the end by the fan-in, once.
C33_AppendsAndEvictionsSerialized ==
    [][\A n \in Names :
          (/\ config # NoConfig /\ config' # NoConfig
           /\ n \in DOMAIN status_history /\ n \in DOMAIN status_history') =>
             LET old == InRetention(status_history[n], now', Retention)
                 new == InRetention(status_history'[n], now', Retention)
             IN \/ new = old
                \/ \E l \in DOMAIN pc :
                      /\ FanInStep(l)
                      /\ \E i \in 1..Len(tasks[l]) :
                            new = Append(old, tasks[l][i].ret.value)]_vars

\* C33 witness: the second cycle's probes have returned and gather is about
\* to hand over, while the window of a holds an entry that has left the
\* retention window: the scheduler's append-then-evict and the eviction of a
\* history query are both about to act on the same window.
C33_Witness ==
    \E l \in DOMAIN pc :
        /\ pc[l] = "gather"
        /\ Len(tasks[l]) >= 1
        /\ AllDone(tasks[l])
        /\ config # NoConfig
        /\ Len(config.urls) >= 1
        /\ config.urls[1].name = "a"
        /\ tasks[l][1].url_config.name = "a"
        /\ removed[l] = {}
        /\ "a" \in DOMAIN status_history
        /\ Len(status_history["a"]) = 1
        /\ status_history["a"][1].timestamp <= now - Retention
        /\ tasks[l][1].ret.value.timestamp > now - Retention
        /\ HistoryView("a").hist["a"] = <<>>

ExportView(name) == save_monitoring_results(config, status_history, name)

\* The data rows of an exported file: what follows the header.
DataRows(r) == Tail(r.file[1])

\* The rows of a file that carry the name n, in the file's order.
RowsOf(rows, n) ==
    LET mine(row) == row[1] = n
    IN SelectSeq(rows, mine)

C35_ResultsRecordedUnderOwnName ==
    [][\A l \in DOMAIN pc : FanInStep(l) =>
          \A n \in (DOMAIN status_history) \cap (DOMAIN status_history') :
              \/ status_history'[n] =
                    KeptAfter(status_history[n], now - Retention)
              \/ status_history'[n] = status_history[n]
              \/ \E i \in 1..Len(tasks[l]) :
                    /\ tasks[l][i].url_config.name = n
                    /\ status_history'[n] =
                          KeptAfter(Append(status_history[n],
                                           tasks[l][i].ret.value),
                                    now - Retention)]_vars

\* The window of n after cleanup_history has run on it now.
Evicted(n) == cleanup_history(status_history, n, config.monitoring, now)[n]

\* C36: eviction removes exactly the entries whose timestamp is at or before
\* now - history_retention_hours.  Every entry with a later timestamp is
\* kept, the kept entries are in the order they had, and evicting the result
\* again at the same time changes nothing.
C36_EvictionKeepsNewerInOrder ==
    \A n \in DOMAIN status_history :
        LET h == status_history[n]
            k == Evicted(n)
            cutoff == now - Retention
            newer == {j \in 1..Len(h) : h[j].timestamp > cutoff}
        IN /\ Len(k) = Cardinality(newer)
           /\ \E f \in [1..Len(k) -> 1..Len(h)] :
                 /\ {f[i] : i \in 1..Len(k)} = newer
                 /\ \A i \in 1..Len(k) : k[i] = h[f[i]]
                 /\ \A i, j \in 1..Len(k) : i < j => f[i] < f[j]
           /\ cleanup_history([status_history EXCEPT ![n] = k], n,
                              config.monitoring, now)[n] = k

\* C36 witness: time has passed and the window holds, in this order, an
\* entry newer than the cutoff, one exactly at the cutoff, one older and one
\* newer again; eviction leaves the first and the last.
C36_Witness ==
    /\ now = 1
    /\ Retention = 2
    /\ status_history["a"] =
          <<TimestampedCheck(0), TimestampedCheck(-1), TimestampedCheck(0)>>
    /\ Evicted("a") = <<TimestampedCheck(0), TimestampedCheck(0)>>

\* C37: start() reloads the registry from the persisted config and creates an
\* empty window only for the names that have none.  The step of start(), the
\* first as well as one after stop(), leaves the registry equal to the file's
\* endpoints and its settings, every window that existed with the entries it
\* had, and the names new to the registry with an empty window.
C37_StartReloadsAndKeepsHistory ==
    [][\A l \in DOMAIN pc : (pc[l] = "created" /\ pc'[l] # "created") =>
          /\ pc'[l] = "gather"
          /\ config' # NoConfig
          /\ config'.urls = config_file.urls
          /\ config'.monitoring = config_file.monitoring
          /\ DOMAIN status_history' =
                (DOMAIN status_history) \cup NameSet(config_file.urls)
          /\ \A n \in DOMAIN status_history :
                status_history'[n] = status_history[n]
          /\ \A n \in (DOMAIN status_history') \ (DOMAIN status_history) :
                status_history'[n] = <<>>]_vars

\* C37 witness: the service was stopped and its loop has ended; a start was
\* requested and start() is about to reload, with the window of a holding a
\* result of the earlier run and b, added at run time, in the file.
C37_Witness ==
    \E l \in DOMAIN pc :
        /\ pc[l] = "created"
        /\ ~running
        /\ config # NoConfig
        /\ "a" \in DOMAIN status_history
        /\ status_history["a"] # <<>>
        /\ Len(config_file.urls) = 2
        /\ config_file.urls[2].name = "b"
        /\ now >= 1

\* A step that changes the content of windows and nothing of the scheduler's
\* position, the clock, the flag or the set of windows: the eviction of a
\* history query.
QueryEvictionStep ==
    /\ status_history' # status_history
    /\ DOMAIN status_history' = DOMAIN status_history
    /\ pc' = pc /\ now' = now /\ running' = running

\* C38: operations on the window of one endpoint leave the other windows and
\* the registry alone.  Evicting the window of n, as cleanup_history and
\* get_url_history do, changes no other window; a history query's step
\* changes one window, by eviction, and neither the registry nor the file;
\* the fan-in appends only to windows of the endpoints it pairs with results
\* and leaves the registry as it is.  (get_url_status assigns nothing: its
\* step leaves every variable unchanged.)
C38_WindowsAreIndependent ==
    [][(config # NoConfig) =>
          /\ \A n \in Names : \A m \in (DOMAIN status_history) \ {n} :
                /\ cleanup_history(status_history, n, config.monitoring,
                                   now)[m] = status_history[m]
                /\ HistoryView(n).hist[m] = status_history[m]
          /\ QueryEvictionStep =>
                /\ config' = config /\ config_file' = config_file
                /\ tasks' = tasks /\ wake_at' = wake_at
                /\ \E n \in DOMAIN status_history :
                      /\ Registered(n)
                      /\ status_history' =
                            [status_history EXCEPT ![n] =
                                KeptAfter(@, now - Retention)]
          /\ \A l \in DOMAIN pc : FanInStep(l) =>
                /\ config' = config /\ config_file' = config_file
                /\ DOMAIN status_history' = DOMAIN status_history
                /\ \A m \in (DOMAIN status_history) \ Paired(l) :
                      status_history'[m] = status_history[m]]_vars

\* C38 witness: a history query on a has just evicted its only entry, and
\* the window of b still holds its entry of the same age.
C38_Witness ==
    /\ config # NoConfig
    /\ Len(config.urls) = 2
    /\ config.urls[1].name = "a" /\ config.urls[2].name = "b"
    /\ DOMAIN status_history = {"a", "b"}
    /\ status_history["a"] = <<>>
    /\ Len(status_history["b"]) = 1
    /\ status_history["b"][1].timestamp <= now - Retention
    /\ \A l \in DOMAIN pc : pc[l] = "sleep"
====
